---- MODULE Spec2Model ----
(***************************************************************************)
(* Build Log Filter: the line scanners of server.js (filterUnityTestResults,*)
(* filterBuildLog, formatMinimal) and of the MCP servers                   *)
(* (localFilterBuildLog), as state machines that process one input line    *)
(* per step.                                                               *)
(*                                                                         *)
(* A line of text is a sequence of tokens.  A token stands for a run of    *)
(* characters the scanners tell apart (a marker such as "<![CDATA[", a     *)
(* blank, a word of text); the string operations of the code (includes,    *)
(* indexOf, substring, split, trim, join) are the corresponding operations *)
(* on token sequences.                                                     *)
(***************************************************************************)
EXTENDS Integers, Sequences, FiniteSets, TLC

\* ------------------------------------------------------------------ bounds
MaxLines == 4
MaxCap == 2
MaxLogLines == 3
MaxLogCap == 1
MaxContext == 2
MaxTextLen == 3
MaxTime == 2

\* ------------------------------------------------------------------ tokens
SP == " "
NL == "\n"
TC_OPEN == "<test-case"
FAILED == "result=\"Failed\""
TC_CLOSE == "</test-case>"
MSG == "<message>"
MSG_END == "</message>"
ST == "<stack-trace>"
ST_END == "</stack-trace>"
OUT == "<output>"
OUT_END == "</output>"
CDATA == "<![CDATA["
CEND == "]]>"
SUITE_END == "</test-suite>"
NAME_A == "name=\"A\""
FULLNAME_A == "fullname=\"N.A\""

\* Tokens whose text begins with "</".
ClosingTags == {TC_CLOSE, MSG_END, ST_END, OUT_END, SUITE_END}

\* The word of text on input line k: every line carries its own word, so a
\* word found in a result names the line it was read from.
TextTok(k) == <<"t1", "t2", "t3", "t4", "t5", "t6", "t7", "t8">>[k]
LineOfTok(tok) ==
    IF \E k \in 1..8 : TextTok(k) = tok
    THEN CHOOSE k \in 1..8 : TextTok(k) = tok
    ELSE 0

\* A stack frame reference "name.cs:line" and the name its regex captures.
FileRefs == {"A.cs:1", "B.cs:2"}
FileOfRef(tok) == IF tok = "A.cs:1" THEN "A.cs" ELSE "B.cs"
FileRank(f) == IF f = "A.cs" THEN 1 ELSE 2

\* ------------------------------------------------------- string operations
Includes(s, x) == \E k \in 1..Len(s) : s[k] = x

\* indexOf, 1-based; 0 when absent.
IndexOf(s, x) ==
    IF Includes(s, x)
    THEN CHOOSE k \in 1..Len(s) : s[k] = x /\ \A m \in 1..(k - 1) : s[m] # x
    ELSE 0

\* substring(k) with k the 1-based position of the first token kept.
From(s, k) == SubSeq(s, k, Len(s))

\* split(x)[0]: the text before the first x, the whole text when x is absent.
Before(s, x) == IF Includes(s, x) THEN SubSeq(s, 1, IndexOf(s, x) - 1) ELSE s

RECURSIVE TrimLeft(_)
TrimLeft(s) == IF s # <<>> /\ Head(s) = SP THEN TrimLeft(Tail(s)) ELSE s

RECURSIVE TrimRight(_)
TrimRight(s) ==
    IF s # <<>> /\ s[Len(s)] = SP THEN TrimRight(SubSeq(s, 1, Len(s) - 1)) ELSE s

Trim(s) == TrimRight(TrimLeft(s))

\* String.prototype.trim on a text of several lines: blanks and newlines go.
RECURSIVE TrimText(_)
TrimText(s) ==
    IF s # <<>> /\ Head(s) \in {SP, NL} THEN TrimText(Tail(s))
    ELSE IF s # <<>> /\ s[Len(s)] \in {SP, NL} THEN TrimText(SubSeq(s, 1, Len(s) - 1))
    ELSE s

\* content.join('\n')
RECURSIVE Join(_)
Join(content) ==
    IF content = <<>> THEN <<>>
    ELSE IF Len(content) = 1 THEN content[1]
    ELSE content[1] \o <<NL>> \o Join(Tail(content))

\* line.search(/\S/): the column of the first non-blank character, -1 if none.
RECURSIVE LeadingBlanks(_)
LeadingBlanks(s) == IF s # <<>> /\ Head(s) = SP THEN 1 + LeadingBlanks(Tail(s)) ELSE 0

SearchNonSpace(line) ==
    IF Trim(line.toks) = <<>> THEN -1 ELSE line.indent + LeadingBlanks(line.toks)

\* The markdown code fence (three backquotes) and the backquote.
FENCE == "<fence>"
TICK == "<backquote>"

\* new Date(t).toISOString() for t milliseconds after the epoch, t < 10.
ToISOString(t) == <<"1970-01-01T00:00:00.00", ToString(t), "Z">>

\* The template string "[Line ${r.line}] ${r.message}".
LineEntry(r) == <<"[Line ", ToString(r.line), "] ">> \o r.message

VARIABLES
    lines,              \* xmlContent.split('\n'): [indent, toks] per line
    root,               \* the attributes of the <test-run element, in order
    maxErrors,
    pc,                 \* "scan", "post" (after break), "pass1", "pass2", "done"
    i,                  \* the loop index, 1-based
    failedTests,
    filesSet,
    inFailedTestCase,
    currentTest,        \* <<>> for null, <<t>> for a record
    captureStack,
    captureOutput,
    currentIndent,
    declared,           \* totalTests, passedTests, failedTestsCount, skippedTests
    result,
    fn,                 \* the function that is running
    showWarnings,
    maxWarnings,
    contextLines,
    fileFilter,         \* <<>> for null
    fileFilters,
    errors,
    warnings,
    errorCount,
    warningCount,
    showStackTraces,
    showOutput,
    now,                \* the clock: what new Date() reads, in ms since the epoch
    previous,           \* <<>>, or <<r>> with r what the call before this one returned
    content,            \* the text of a request, before it is split into lines
    kind,               \* the pipeline the request is routed to
    request,            \* the caps in the body of a POST /api/filter request
    script,             \* filter-unity-results.sh: its position, variables, server
    ui                  \* the front-end: file selection, requests, output panel

unityVars == <<root, failedTests, inFailedTestCase, currentTest, captureStack,
               captureOutput, currentIndent, declared>>

logVars == <<showWarnings, maxWarnings, contextLines, fileFilter, fileFilters,
             errors, warnings, errorCount, warningCount>>

\* What a scan never writes: the remaining options, the clock, the request.
envVars == <<showStackTraces, showOutput, now, previous, content, kind, request,
             script, ui>>

vars == <<lines, maxErrors, pc, i, filesSet, result, fn, unityVars, logVars, envVars>>

\* ------------------------------------------------------------ input texts
\* The kinds of line an input text is made of; k is the line's number.
OpenFailedLine(k) == [indent |-> 1, toks |-> <<TC_OPEN, NAME_A, FULLNAME_A, FAILED>>]
CloseLine(k) == [indent |-> 1, toks |-> <<TC_CLOSE>>]
MessageOpenLine(k) == [indent |-> 2, toks |-> <<MSG, CDATA, SP, TextTok(k)>>]
\* A line of plain text; it names a source file, as a later stack frame does.
TextLine(k) == [indent |-> 2, toks |-> <<TextTok(k), "B.cs:2">>]
CDataEndLine(k) == [indent |-> 2, toks |-> <<TextTok(k), CEND, MSG_END>>]
CDataCloseLine(k) == [indent |-> 2, toks |-> <<CEND, MSG_END>>]
StackOpenLine(k) == [indent |-> 2, toks |-> <<ST, CDATA, TextTok(k), "A.cs:1">>]
OutputOpenLine(k) == [indent |-> 2, toks |-> <<OUT, CDATA, TextTok(k)>>]
MessageCloseLine(k) ==
    [indent |-> 2, toks |-> <<MSG, CDATA, SP, TextTok(k), SP, CEND, MSG_END, TC_CLOSE>>]
\* A failed test case written on one line, message and close included.
OneLineFailedLine(k) ==
    [indent |-> 1,
     toks |-> <<TC_OPEN, NAME_A, FAILED, MSG, CDATA, TextTok(k), CEND, MSG_END, TC_CLOSE>>]

Palette(k) ==
    {OpenFailedLine(k), CloseLine(k), MessageOpenLine(k), TextLine(k),
     CDataEndLine(k), CDataCloseLine(k), StackOpenLine(k), OutputOpenLine(k),
     MessageCloseLine(k), OneLineFailedLine(k)}

\* The texts of n lines.  A text starts at its first failed test case: the
\* scanner skips the lines before it (UnitySkip) without reading them.
RECURSIVE Docs(_)
Docs(n) == IF n = 1 THEN {<<OpenFailedLine(1)>>, <<OneLineFailedLine(1)>>}
           ELSE {Append(d, l) : d \in Docs(n - 1), l \in Palette(n)}

Attr(n, v) == [name |-> n, val |-> v]
\* The root element of the test document of the standalone version.
RootPalette ==
    {<<Attr("testcasecount", 10), Attr("total", 10), Attr("passed", 8),
       Attr("failed", 2), Attr("skipped", 0)>>}

\* ------------------------------------------------- filterUnityTestResults
\* The combined summary pattern: total, passed, failed, skipped in that order
\* inside one element, anything but '>' between them.
SummaryMatches(r) ==
    \E a, b, c, d \in 1..Len(r) :
        /\ a < b /\ b < c /\ c < d
        /\ r[a].name = "total" /\ r[b].name = "passed"
        /\ r[c].name = "failed" /\ r[d].name = "skipped"

AttrVal(r, n) == r[CHOOSE k \in 1..Len(r) : r[k].name = n].val

ParseSummary(r) ==
    IF SummaryMatches(r)
    THEN [totalTests |-> AttrVal(r, "total"), passedTests |-> AttrVal(r, "passed"),
          failedTestsCount |-> AttrVal(r, "failed"), skippedTests |-> AttrVal(r, "skipped")]
    ELSE [totalTests |-> 0, passedTests |-> 0, failedTestsCount |-> 0, skippedTests |-> 0]

\* /name="([^"]+)"/ : the first name="..." of the line, which is the tail of
\* fullname="..." when that attribute comes first.
ExtractTestName(xmlLine) ==
    LET hits == {k \in 1..Len(xmlLine) : xmlLine[k] \in {NAME_A, FULLNAME_A}} IN
    IF hits = {} THEN "null"
    ELSE LET k == CHOOSE x \in hits : \A y \in hits : x <= y IN
         IF xmlLine[k] = NAME_A THEN "A" ELSE "N.A"

ExtractFullname(xmlLine) == IF Includes(xmlLine, FULLNAME_A) THEN "N.A" ELSE "null"

IsFailedOpen(trimmed) == Includes(trimmed, TC_OPEN) /\ Includes(trimmed, FAILED)

\* openLine and msgLine record where the record was opened and where its
\* message was last assigned; the code does not read them.
NewTest(trimmed, k) ==
    [name |-> ExtractTestName(trimmed), fullname |-> ExtractFullname(trimmed),
     message |-> <<>>, stackTrace |-> <<>>, output |-> <<>>,
     openLine |-> k, msgLine |-> 0]

\* The first line at or after j that holds "]]>", Len(lines) + 1 if none.
RECURSIVE FirstCEndFrom(_)
FirstCEndFrom(j) ==
    IF j > Len(lines) \/ Includes(lines[j].toks, CEND) THEN j ELSE FirstCEndFrom(j + 1)

\* MultiLineMessage without the text before the close marker.
MultiLineMessageNoEnd(k, afterCdataStart) ==
    LET head == IF Trim(afterCdataStart) # <<>> THEN <<Trim(afterCdataStart)>> ELSE <<>>
        j == FirstCEndFrom(k + 1)
        mid == [m \in 1..(j - k - 1) |-> Trim(lines[k + m].toks)]
    IN Join(head \o mid)

\* server.js 123-140: the multi-line CDATA of a message opened on line k.
MultiLineMessage(k, afterCdataStart) ==
    LET head == IF Trim(afterCdataStart) # <<>> THEN <<Trim(afterCdataStart)>> ELSE <<>>
        j == FirstCEndFrom(k + 1)
        mid == [m \in 1..(j - k - 1) |-> Trim(lines[k + m].toks)]
        endContent == IF j <= Len(lines) THEN Trim(Before(lines[j].toks, CEND)) ELSE <<>>
        tail == IF endContent # <<>> THEN <<endContent>> ELSE <<>>
    IN Join(head \o mid \o tail)

\* server.js 113-143
MessageStep(s, k) ==
    LET line == lines[k].toks
        trimmed == Trim(line)
        afterCdataStart == From(line, IndexOf(line, CDATA) + 1)
    IN  IF Includes(trimmed, MSG) /\ Includes(line, CDATA)
        THEN IF Includes(afterCdataStart, CEND)
             THEN [s EXCEPT !.t.message = Trim(Before(afterCdataStart, CEND)),
                            !.t.msgLine = k]
             ELSE [s EXCEPT !.t.message = MultiLineMessage(k, afterCdataStart),
                            !.t.msgLine = k]
        ELSE s

\* server.js 145-162
StackTagStep(s, k) ==
    LET line == lines[k].toks
        trimmed == Trim(line)
        afterCdataStart == From(line, IndexOf(line, CDATA) + 1)
    IN  IF ~Includes(trimmed, ST) THEN s
        ELSE IF Includes(line, CDATA)
        THEN IF Includes(afterCdataStart, CEND)
             THEN [s EXCEPT !.t.stackTrace = Trim(Before(afterCdataStart, CEND))]
             ELSE [s EXCEPT !.cs = TRUE,
                            !.t.stackTrace =
                                IF Trim(afterCdataStart) # <<>>
                                THEN Trim(afterCdataStart) \o <<NL>> ELSE @]
        ELSE [s EXCEPT !.cs = TRUE]

\* server.js 164-175
StackCaptureStep(s, k) ==
    LET trimmed == Trim(lines[k].toks)
        endContent == Trim(Before(trimmed, CEND))
    IN  IF ~s.cs THEN s
        ELSE IF Includes(trimmed, CEND)
        THEN [s EXCEPT !.cs = FALSE,
                       !.t.stackTrace =
                           IF endContent # <<>> /\ ~Includes(endContent, ST)
                           THEN @ \o endContent ELSE @]
        ELSE IF Len(trimmed) > 0 /\ ~Includes(trimmed, ST) /\ ~Includes(trimmed, CDATA)
        THEN [s EXCEPT !.t.stackTrace = @ \o trimmed \o <<NL>>]
        ELSE s

\* server.js 177-193
OutputTagStep(s, k) ==
    LET line == lines[k].toks
        trimmed == Trim(line)
        afterCdataStart == From(line, IndexOf(line, CDATA) + 1)
    IN  IF ~Includes(trimmed, OUT) THEN s
        ELSE IF Includes(line, CDATA)
        THEN IF Includes(afterCdataStart, CEND)
             THEN [s EXCEPT !.t.output = Trim(Before(afterCdataStart, CEND))]
             ELSE [s EXCEPT !.co = TRUE,
                            !.t.output =
                                IF Trim(afterCdataStart) # <<>>
                                THEN Trim(afterCdataStart) \o <<NL>> ELSE @]
        ELSE [s EXCEPT !.co = TRUE]

\* server.js 195-206
OutputCaptureStep(s, k) ==
    LET trimmed == Trim(lines[k].toks)
        endContent == Trim(Before(trimmed, CEND))
    IN  IF ~s.co THEN s
        ELSE IF Includes(trimmed, CEND)
        THEN [s EXCEPT !.co = FALSE,
                       !.t.output =
                           IF endContent # <<>> /\ ~Includes(endContent, OUT)
                           THEN @ \o endContent ELSE @]
        ELSE IF Len(trimmed) > 0 /\ ~Includes(trimmed, OUT) /\ ~Includes(trimmed, CDATA)
        THEN [s EXCEPT !.t.output = @ \o trimmed \o <<NL>>]
        ELSE s

\* server.js 208-214: stackTrace.match(/([A-Za-z0-9_]+\.cs):(\d+)/), the first
\* reference of the accumulated text.
DiscoverFile(fs, t) ==
    LET hits == {k \in 1..Len(t.stackTrace) : t.stackTrace[k] \in FileRefs} IN
    IF hits = {} THEN fs
    ELSE fs \cup {FileOfRef(t.stackTrace[CHOOSE x \in hits : \A y \in hits : x <= y])}

\* server.js 217
ClosesTestCase(k, indent) ==
    LET trimmed == Trim(lines[k].toks) IN
    \/ Includes(trimmed, TC_CLOSE)
    \/ (trimmed # <<>> /\ Head(trimmed) \in ClosingTags
            /\ SearchNonSpace(lines[k]) <= indent)

\* Retainable that also keeps a record with console output only.
RetainableWithOutput(t) == t.message # <<>> \/ t.stackTrace # <<>> \/ t.output # <<>>

\* server.js 218
Retainable(t) == t.message # <<>> \/ t.stackTrace # <<>>

\* CapReached that stops one record late.
CapReachedLate(n, cap) == n > cap

\* server.js 220
CapReached(n, cap) == n >= cap

\* Array.from(filesSet).sort()
RECURSIVE SortFiles(_)
SortFiles(S) ==
    IF S = {} THEN <<>>
    ELSE LET m == CHOOSE x \in S : \A y \in S : FileRank(x) <= FileRank(y)
         IN <<m>> \o SortFiles(S \ {m})

NoResult == [summary |-> [totalTests |-> 0, passed |-> 0, failed |-> 0, skipped |-> 0],
             errors |-> <<>>, files |-> <<>>]

\* filter-unity-results.sh 100-101, before the first check of the server.
\* node is the process the script launches with 'node server.js &': "none"
\* before the launch, "starting" until it listens, "listening", "killed".
\* up says that a server some other process started answers on the port.
ScriptStart ==
    [pc |-> "check", SERVER_STARTED |-> FALSE, SERVER_PID |-> "", i |-> 0,
     node |-> "none", up |-> FALSE, FAILED |-> "", exit |-> "", path |-> ""]

\* part_003 34-38 and the page as loaded: no files, nothing selected, no
\* timer, the button enabled, the panel empty.  issued counts the requests,
\* last is the latest one, inFlight those not yet answered.
UiStart ==
    [currentFiles |-> <<>>, selectedFiles |-> {}, autoFilterTimer |-> FALSE,
     disabled |-> FALSE, outputLog |-> <<>>, issued |-> 0, inFlight |-> {},
     last |-> <<>>]

\* The options of a call that names none (server.js 62-66) and a request
\* that has been read.
Defaults ==
    /\ showStackTraces = TRUE
    /\ showOutput = TRUE
    /\ now = 0
    /\ previous = <<>>
    /\ content = <<>>
    /\ kind = "none"
    /\ request = <<>>
    /\ script = ScriptStart
    /\ ui = UiStart

InitUnityOn(roots, caps) ==
    /\ lines \in UNION {Docs(n) : n \in 1..MaxLines}
    /\ root \in roots
    /\ maxErrors \in caps
    /\ Defaults
    /\ pc = "scan"
    /\ i = 1
    /\ failedTests = <<>>
    /\ filesSet = {}
    /\ inFailedTestCase = FALSE
    /\ currentTest = <<>>
    /\ captureStack = FALSE
    /\ captureOutput = FALSE
    /\ currentIndent = 0
    /\ declared = ParseSummary(root)
    /\ result = NoResult
    /\ fn = "filterUnityTestResults"
    /\ showWarnings = TRUE
    /\ maxWarnings = 0
    /\ contextLines = 0
    /\ fileFilter = <<>>
    /\ fileFilters = <<>>
    /\ errors = <<>>
    /\ warnings = <<>>
    /\ errorCount = 0
    /\ warningCount = 0

InitUnity == InitUnityOn(RootPalette, 0..MaxCap)

\* server.js 96-110: the line opens a failed test case.
UnityOpen ==
    /\ fn = "filterUnityTestResults"
    /\ pc = "scan" /\ i <= Len(lines)
    /\ IsFailedOpen(Trim(lines[i].toks))
    /\ inFailedTestCase' = TRUE
    /\ currentIndent' = SearchNonSpace(lines[i])
    /\ currentTest' = <<NewTest(Trim(lines[i].toks), i)>>
    /\ captureStack' = FALSE
    /\ captureOutput' = FALSE
    /\ i' = i + 1
    /\ UNCHANGED <<envVars, lines, root, maxErrors, pc, failedTests, filesSet, declared, result,
                   fn, logVars>>

\* server.js 112-227: a line inside a failed test case.
UnityInCase ==
    /\ fn = "filterUnityTestResults"
    /\ pc = "scan" /\ i <= Len(lines)
    /\ ~IsFailedOpen(Trim(lines[i].toks))
    /\ inFailedTestCase /\ currentTest # <<>>
    /\ \E s1 \in {MessageStep([t |-> currentTest[1], cs |-> captureStack,
                                co |-> captureOutput], i)} :
       \E s2 \in {StackCaptureStep(StackTagStep(s1, i), i)} :
       \E s3 \in {OutputCaptureStep(OutputTagStep(s2, i), i)} :
       LET closes == ClosesTestCase(i, currentIndent)
           keep == closes /\ Retainable(s3.t)
           pushed == IF keep THEN Append(failedTests, s3.t) ELSE failedTests
           stop == keep /\ CapReached(Len(pushed), maxErrors)
       IN  /\ filesSet' = DiscoverFile(filesSet, s3.t)
           /\ captureStack' = s3.cs
           /\ captureOutput' = s3.co
           /\ failedTests' = pushed
           /\ pc' = IF stop THEN "post" ELSE "scan"
           /\ i' = IF stop THEN i ELSE i + 1
           /\ inFailedTestCase' = IF closes /\ ~stop THEN FALSE ELSE TRUE
           /\ currentTest' = IF closes /\ ~stop THEN <<>> ELSE <<s3.t>>
    /\ UNCHANGED <<envVars, lines, root, maxErrors, currentIndent, declared, result, fn, logVars>>

\* UnitySkip without the increment of the loop index.
UnitySkipStuck ==
    /\ fn = "filterUnityTestResults"
    /\ pc = "scan" /\ i <= Len(lines)
    /\ ~IsFailedOpen(Trim(lines[i].toks))
    /\ ~(inFailedTestCase /\ currentTest # <<>>)
    /\ UNCHANGED vars

\* server.js 92-112: a line outside every failed test case.
UnitySkip ==
    /\ fn = "filterUnityTestResults"
    /\ pc = "scan" /\ i <= Len(lines)
    /\ ~IsFailedOpen(Trim(lines[i].toks))
    /\ ~(inFailedTestCase /\ currentTest # <<>>)
    /\ i' = i + 1
    /\ UNCHANGED <<envVars, lines, root, maxErrors, pc, failedTests, filesSet, inFailedTestCase,
                   currentTest, captureStack, captureOutput, currentIndent, declared,
                   result, fn, logVars>>

\* server.js 241-274: the blocks of the failed tests from the idx-th on.
RECURSIVE RenderTests(_, _)
RenderTests(tests, idx) ==
    IF idx > Len(tests) THEN <<>>
    ELSE LET test == tests[idx] IN
         << <<"### ", ToString(idx), ". ",
              IF test.name # "null" THEN test.name ELSE "Unknown Test">> >>
         \o (IF test.fullname # "null" /\ test.fullname # test.name
             THEN << <<"**Full Name:** ", TICK, test.fullname, TICK>> >> ELSE <<>>)
         \o << <<>> >>
         \o (IF test.message # <<>>
             THEN << <<"**Error Message:**">>, <<FENCE>>, test.message, <<FENCE>>, <<>> >>
             ELSE <<>>)
         \o (IF showStackTraces /\ test.stackTrace # <<>>
             THEN << <<"**Stack Trace:**">>, <<FENCE>>, TrimText(test.stackTrace),
                     <<FENCE>>, <<>> >>
             ELSE <<>>)
         \o (IF showOutput /\ test.output # <<>>
             THEN << <<"**Console Output:**">>, <<FENCE>>, TrimText(test.output),
                     <<FENCE>>, <<>> >>
             ELSE <<>>)
         \o << <<"---">>, <<>> >>
         \o RenderTests(tests, idx + 1)

\* server.js 230-277: the output lines of filterUnityTestResults.
RenderUnity ==
    << <<"# Unity Test Results - Filtered Output">>,
       <<"# Total: ", ToString(declared.totalTests),
         " | Passed: ", ToString(declared.passedTests),
         " | Failed: ", ToString(Len(failedTests)),
         " | Skipped: ", ToString(declared.skippedTests)>>,
       <<"# Generated: ">> \o ToISOString(now),
       <<>> >>
    \o (IF Len(failedTests) > 0
        THEN << <<"## FAILED TESTS (", ToString(Len(failedTests)), ")">>, <<>> >>
             \o RenderTests(failedTests, 1)
        ELSE << <<"## All tests passed! No failures found.">> >>)

\* server.js 279-290: the loop has ended (end of text or break).
UnityReturn ==
    /\ fn = "filterUnityTestResults"
    /\ IF pc = "scan" THEN i > Len(lines) ELSE pc = "post"
    /\ pc' = "done"
    /\ result' = [summary |-> [totalTests |-> declared.totalTests,
                               passed |-> declared.passedTests,
                               failed |-> Len(failedTests),
                               skipped |-> declared.skippedTests,
                               filteredLines |-> Len(RenderUnity)],
                  errors |-> failedTests,
                  filteredContent |-> Join(RenderUnity),
                  files |-> SortFiles(filesSet)]
    /\ UNCHANGED <<envVars, lines, root, maxErrors, i, failedTests, filesSet, inFailedTestCase,
                   currentTest, captureStack, captureOutput, currentIndent, declared,
                   fn, logVars>>

NextUnity == UnityOpen \/ UnityInCase \/ UnitySkip \/ UnityReturn

SpecUnity == InitUnity /\ [][NextUnity]_vars

\* --------------------------------------------------------- build-log texts
\* The regular expressions of the scanners, by their source text, and the
\* phrases of the input texts each of them matches.
RE_ERROR_CODE == "\\berror [A-Z]+\\d+:"
RE_ERROR_MSB == "\\berror MSB\\d+:"
RE_ERROR_LNK == "\\berror LNK\\d+:"
RE_FATAL == "\\bfatal error\\b"
RE_ERROR_COLON == "\\bERROR:"
RE_UHT_COLON == "\\): error :"
RE_UHT_WORD == "\\): error \\w"
RE_SETENV == "\\bSetEnv task failed"
RE_FAILED == "\\bfailed unexpectedly"
RE_INCLUDE == "\\bCannot open include file"
RE_UNRESOLVED == "\\bunresolved external symbol"
RE_WARNING == "\\bwarning [A-Z]+\\d+:"

PhrasesMatching(re) ==
    CASE re = RE_ERROR_CODE ->
            {"error C2065:", "error MSB3073:", "error LNK2019:", "fatal error C1083:"}
      [] re = RE_ERROR_MSB -> {"error MSB3073:"}
      [] re = RE_ERROR_LNK -> {"error LNK2019:"}
      [] re = RE_FATAL -> {"fatal error C1083:"}
      [] re = RE_ERROR_COLON -> {"ERROR:"}
      [] re = RE_UHT_COLON -> {"): error :"}
      [] re = RE_UHT_WORD -> {"): error expected"}
      [] re = RE_SETENV -> {"SetEnv task failed"}
      [] re = RE_FAILED -> {"failed unexpectedly"}
      [] re = RE_INCLUDE -> {"Cannot open include file"}
      [] re = RE_UNRESOLVED -> {"unresolved external symbol"}
      [] re = RE_WARNING -> {"warning C4101:"}

\* p.test(line)
RegexTest(re, line) == \E n \in 1..Len(line.toks) : line.toks[n] \in PhrasesMatching(re)

\* A file name is the sequence of its parts, so that one name can be a
\* substring of another.  /([a-zA-Z0-9_]+\.(cpp|h|hpp|cs))\(?(\d+)?\)?/ takes
\* "MyFoo.h" from "MyFoo.hpp(3)": the alternative h is tried before hpp.
FileTokens == {"Foo.cpp(12)", "Bar.h(7)", "MyFoo.hpp(3)"}
FileNameOfToken(tok) ==
    CASE tok = "Foo.cpp(12)" -> <<"Foo", ".cpp">>
      [] tok = "Bar.h(7)" -> <<"Bar", ".h">>
      [] tok = "MyFoo.hpp(3)" -> <<"My", "Foo", ".h">>

\* The order of Array.prototype.sort on the names above.
NameRank(f) ==
    CASE f = <<"Bar", ".h">> -> 1
      [] f = <<"Foo", ".cpp">> -> 2
      [] f = <<"My", "Foo", ".h">> -> 3

\* a.includes(b)
StrIncludes(a, b) ==
    \E off \in 0..(Len(a) - Len(b)) : \A n \in 1..Len(b) : a[off + n] = b[n]

\* line.match(filePattern): <<>> for no match, <<fileName>> for the first one.
FileMatch(line) ==
    LET hits == {n \in 1..Len(line.toks) : line.toks[n] \in FileTokens} IN
    IF hits = {} THEN <<>>
    ELSE <<FileNameOfToken(line.toks[CHOOSE x \in hits : \A y \in hits : x <= y])>>

OkLogLine == [indent |-> 2, toks |-> <<"Compiling", "Foo.cpp(12)">>]
ErrorLogLine == [indent |-> 0, toks |-> <<"Foo.cpp(12)", "error C2065:">>]
WarningLogLine == [indent |-> 0, toks |-> <<"Bar.h(7)", "warning C4101:">>]
\* A line that matches an error pattern and the warning pattern, no file.
ErrorWarningLogLine == [indent |-> 1, toks |-> <<"error C2065:", "warning C4101:">>]
\* An error for filterBuildLog and localFilterBuildLog only.
SetEnvLogLine ==
    [indent |-> 0, toks |-> <<"MyFoo.hpp(3)", "SetEnv task failed", "warning C4101:">>]

LogPalette ==
    {OkLogLine, ErrorLogLine, WarningLogLine, ErrorWarningLogLine, SetEnvLogLine}

RECURSIVE Logs(_)
Logs(n) == IF n = 0 THEN {<<>>}
           ELSE {Append(d, l) : d \in Logs(n - 1), l \in LogPalette}

\* The fileFilter / fileFilters options of a request.
FilterPalette ==
    {[fileFilter |-> <<>>, fileFilters |-> <<>>],
     [fileFilter |-> <<"Foo">>, fileFilters |-> <<>>],
     [fileFilter |-> <<"My">>,
      fileFilters |-> << <<"Bar", ".h">>, <<"x", "Foo", ".cpp">> >>]}

\* ------------------------------------------- filterBuildLog, formatMinimal
\* server.js 329-341 and 469-477
ErrorPatterns(f) ==
    IF f = "formatMinimal"
    THEN {RE_ERROR_CODE, RE_ERROR_MSB, RE_ERROR_LNK, RE_FATAL, RE_ERROR_COLON,
          RE_UHT_COLON, RE_UHT_WORD}
    ELSE IF f = "localFilterBuildLog"
    THEN {RE_ERROR_CODE, RE_ERROR_MSB, RE_ERROR_LNK, RE_FATAL, RE_ERROR_COLON,
          RE_UHT_COLON, RE_SETENV, RE_FAILED, RE_INCLUDE, RE_UNRESOLVED}
    ELSE {RE_ERROR_CODE, RE_ERROR_MSB, RE_ERROR_LNK, RE_FATAL, RE_ERROR_COLON,
          RE_UHT_COLON, RE_UHT_WORD, RE_SETENV, RE_FAILED, RE_INCLUDE, RE_UNRESOLVED}

\* IsErrorLine that tries the first pattern only.
IsErrorLineFirstPattern(f, line) == RegexTest(RE_ERROR_CODE, line)

\* errorPatterns.some(p => p.test(line))
IsErrorLine(f, line) == \E re \in ErrorPatterns(f) : RegexTest(re, line)

\* IsWarningLine without the error test.
IsWarningLineAlone(f, line) == RegexTest(RE_WARNING, line)

\* server.js 368 and 503: !isError && warningPattern.test(line)
IsWarningLine(f, line) == ~IsErrorLine(f, line) /\ RegexTest(RE_WARNING, line)

\* ActiveFilters that keeps the first entry of fileFilters only.
ActiveFiltersFirstOnly(filters, filter) ==
    IF Len(filters) > 0 THEN <<filters[1]>>
    ELSE IF filter # <<>> THEN <<filter>> ELSE <<>>

\* server.js 372 and 507
ActiveFilters(filters, filter) ==
    IF Len(filters) > 0 THEN filters
    ELSE IF filter # <<>> THEN <<filter>> ELSE <<>>

\* MatchesFile that keeps a line without a file reference.
MatchesFileLenient(line, activeFilters) ==
    IF Len(activeFilters) > 0 /\ FileMatch(line) # <<>>
    THEN \E n \in 1..Len(activeFilters) :
            \/ StrIncludes(FileMatch(line)[1], activeFilters[n])
            \/ StrIncludes(activeFilters[n], FileMatch(line)[1])
    ELSE TRUE

\* server.js 371-384 and 506-519
MatchesFile(line, activeFilters) ==
    IF Len(activeFilters) > 0
    THEN IF FileMatch(line) # <<>>
         THEN \E n \in 1..Len(activeFilters) :
                 \/ StrIncludes(FileMatch(line)[1], activeFilters[n])
                 \/ StrIncludes(activeFilters[n], FileMatch(line)[1])
         ELSE FALSE
    ELSE TRUE

\* UnderCap that lets the list reach cap + 1.
UnderCapInclusive(count, cap) == count <= cap

\* server.js 386, 403, 521, 523: count < cap
UnderCap(count, cap) == count < cap

\* FilesOf that skips the lines the file filter rejects.
FilesOfFiltered(f, ls) ==
    {FileMatch(ls[n])[1] :
        n \in {m \in 1..Len(ls) :
                 /\ IsErrorLine(f, ls[m]) \/ IsWarningLine(f, ls[m])
                 /\ FileMatch(ls[m]) # <<>>
                 /\ MatchesFile(ls[m], ActiveFilters(fileFilters, fileFilter))}}

\* server.js 349-360 and 484-495: the file names of the error and warning lines.
FilesOf(f, ls) ==
    {FileMatch(ls[n])[1] :
        n \in {m \in 1..Len(ls) : /\ IsErrorLine(f, ls[m]) \/ IsWarningLine(f, ls[m])
                                  /\ FileMatch(ls[m]) # <<>>}}

RECURSIVE SortNames(_)
SortNames(S) ==
    IF S = {} THEN <<>>
    ELSE LET m == CHOOSE x \in S : \A y \in S : NameRank(x) <= NameRank(y)
         IN <<m>> \o SortNames(S \ {m})

\* ErrorBlock whose slice starts one line late.
ErrorBlockLateStart(k) ==
    LET start == IF k - contextLines > 0 THEN k - contextLines ELSE 0 IN
    IF contextLines > 0
    THEN [line |-> k, message |-> Trim(lines[k].toks),
          context |-> [m \in 1..(k - 1 - start) |-> Trim(lines[start + m].toks)]]
    ELSE [line |-> k, message |-> Trim(lines[k].toks)]

\* server.js 389-398
ErrorBlock(k) ==
    LET start == IF k - 1 - contextLines > 0 THEN k - 1 - contextLines ELSE 0 IN
    IF contextLines > 0
    THEN [line |-> k, message |-> Trim(lines[k].toks),
          context |-> [m \in 1..(k - 1 - start) |-> Trim(lines[start + m].toks)]]
    ELSE [line |-> k, message |-> Trim(lines[k].toks)]

InitBuildOn(fns, caps, contexts, filters) ==
    /\ fn \in fns
    /\ lines \in UNION {Logs(n) : n \in 1..MaxLogLines}
    /\ showWarnings \in BOOLEAN
    /\ maxErrors \in caps
    /\ maxWarnings \in caps
    /\ contextLines \in contexts
    /\ \E o \in filters : fileFilter = o.fileFilter /\ fileFilters = o.fileFilters
    /\ Defaults
    /\ pc = "pass1"
    /\ i = 1
    /\ filesSet = {}
    /\ errors = <<>>
    /\ warnings = <<>>
    /\ errorCount = 0
    /\ warningCount = 0
    /\ result = NoResult
    /\ root = <<>>
    /\ failedTests = <<>>
    /\ inFailedTestCase = FALSE
    /\ currentTest = <<>>
    /\ captureStack = FALSE
    /\ captureOutput = FALSE
    /\ currentIndent = 0
    /\ declared = ParseSummary(<<>>)

InitBuild == InitBuildOn({"filterBuildLog", "formatMinimal"}, 0..MaxLogCap, {0}, FilterPalette)

\* server.js 348-362: the first pass of filterBuildLog.
FblFirstPass ==
    /\ fn = "filterBuildLog" /\ pc = "pass1"
    /\ filesSet' = FilesOf(fn, lines)
    /\ pc' = "pass2"
    /\ UNCHANGED <<envVars, lines, maxErrors, i, result, fn, unityVars, logVars>>

\* server.js 365-411: one line of the second pass of filterBuildLog.
FblScanLine ==
    /\ fn = "filterBuildLog" /\ pc = "pass2" /\ i <= Len(lines)
    /\ LET line == lines[i]
           isError == IsErrorLine(fn, line)
           isWarning == IsWarningLine(fn, line)
           matchesFile == MatchesFile(line, ActiveFilters(fileFilters, fileFilter))
           addError == isError /\ UnderCap(errorCount, maxErrors) /\ matchesFile
           addWarning == isWarning /\ showWarnings /\ UnderCap(warningCount, maxWarnings)
                            /\ matchesFile
       IN  /\ errorCount' = IF addError THEN errorCount + 1 ELSE errorCount
           /\ errors' = IF addError THEN Append(errors, ErrorBlock(i)) ELSE errors
           /\ warningCount' = IF addWarning THEN warningCount + 1 ELSE warningCount
           /\ warnings' = IF addWarning
                          THEN Append(warnings, [line |-> i, message |-> Trim(line.toks)])
                          ELSE warnings
    /\ i' = i + 1
    /\ UNCHANGED <<envVars, lines, maxErrors, pc, filesSet, result, fn, unityVars, showWarnings,
                   maxWarnings, contextLines, fileFilter, fileFilters>>

\* server.js 427-438: the lines of the error records from the n-th on.
RECURSIVE RenderErrors(_, _)
RenderErrors(errs, n) ==
    IF n > Len(errs) THEN <<>>
    ELSE LET err == errs[n] IN
         (IF "context" \in DOMAIN err /\ Len(err.context) > 0
          THEN << <<"### Error at line ", ToString(err.line)>>, <<FENCE>> >>
               \o err.context \o << err.message, <<FENCE>> >>
          ELSE << LineEntry(err) >>)
         \o << <<>> >>
         \o RenderErrors(errs, n + 1)

\* server.js 413-451: the output lines of filterBuildLog.
RenderBuild ==
    << <<"# Build Log Filtered Output">>,
       <<"# Original: ", ToString(Len(lines)), " lines">>,
       <<"# Found: ", ToString(errorCount), " errors, ", ToString(warningCount),
         " warnings">> >>
    \o (IF fileFilter # <<>> THEN << <<"# Filter: ">> \o fileFilter >> ELSE <<>>)
    \o << <<"# Generated: ">> \o ToISOString(now), <<>> >>
    \o (IF Len(errors) > 0
        THEN << <<"## ERRORS (", ToString(Len(errors)), ")">>, <<>> >>
             \o RenderErrors(errors, 1)
        ELSE << <<"## No errors found!">> >>)
    \o (IF Len(warnings) > 0
        THEN << <<>>, <<"## WARNINGS (", ToString(Len(warnings)), ")">>, <<>> >>
             \o [n \in 1..Len(warnings) |-> LineEntry(warnings[n])]
        ELSE <<>>)

\* server.js 413-456: filterBuildLog returns results.
FblReturn ==
    /\ fn = "filterBuildLog" /\ pc = "pass2" /\ i > Len(lines)
    /\ result' = [summary |-> [totalLines |-> Len(lines), errorCount |-> errorCount,
                               warningCount |-> warningCount,
                               filteredLines |-> Len(RenderBuild)],
                  errors |-> errors, warnings |-> warnings,
                  filteredContent |-> Join(RenderBuild),
                  files |-> SortNames(filesSet)]
    /\ pc' = "done"
    /\ UNCHANGED <<envVars, lines, maxErrors, i, filesSet, fn, unityVars, logVars>>

\* server.js 483-497: the first pass of formatMinimal.
FmFirstPass ==
    /\ fn = "formatMinimal" /\ pc = "pass1"
    /\ filesSet' = FilesOf(fn, lines)
    /\ pc' = "pass2"
    /\ UNCHANGED <<envVars, lines, maxErrors, i, result, fn, unityVars, logVars>>

\* server.js 500-526: one line of the second pass of formatMinimal.
FmScanLine ==
    /\ fn = "formatMinimal" /\ pc = "pass2" /\ i <= Len(lines)
    /\ LET line == lines[i]
           isError == IsErrorLine(fn, line)
           isWarning == IsWarningLine(fn, line)
           matchesFile == MatchesFile(line, ActiveFilters(fileFilters, fileFilter))
           addError == isError /\ UnderCap(Len(errors), maxErrors) /\ matchesFile
           addWarning == ~addError /\ isWarning /\ showWarnings
                            /\ UnderCap(Len(warnings), maxWarnings) /\ matchesFile
       IN  /\ errors' = IF addError
                        THEN Append(errors, [line |-> i, message |-> Trim(line.toks)])
                        ELSE errors
           /\ warnings' = IF addWarning
                          THEN Append(warnings, [line |-> i, message |-> Trim(line.toks)])
                          ELSE warnings
    /\ i' = i + 1
    /\ UNCHANGED <<envVars, lines, maxErrors, pc, filesSet, result, fn, unityVars, showWarnings,
                   maxWarnings, contextLines, fileFilter, fileFilters, errorCount,
                   warningCount>>

\* server.js 528-538: the output lines of formatMinimal.
RenderMinimal ==
    << <<"=== ERRORS ===", NL>> >>
    \o [n \in 1..Len(errors) |-> LineEntry(errors[n])]
    \o (IF Len(errors) = 0 THEN << <<"(no errors found)">> >> ELSE <<>>)
    \o (IF showWarnings
        THEN << <<NL, "=== WARNINGS ===", NL>> >>
             \o [n \in 1..Len(warnings) |-> LineEntry(warnings[n])]
             \o (IF Len(warnings) = 0 THEN << <<"(no warnings found)">> >> ELSE <<>>)
        ELSE <<>>)

\* server.js 540-546: formatMinimal returns its content and counts.
FmReturn ==
    /\ fn = "formatMinimal" /\ pc = "pass2" /\ i > Len(lines)
    /\ result' = [content |-> Join(RenderMinimal),
                  errorCount |-> Len(errors),
                  warningCount |-> IF showWarnings THEN Len(warnings) ELSE 0,
                  totalLines |-> Len(lines),
                  files |-> SortNames(filesSet)]
    /\ pc' = "done"
    /\ UNCHANGED <<envVars, lines, maxErrors, i, filesSet, fn, unityVars, logVars>>

NextBuild ==
    FblFirstPass \/ FblScanLine \/ FblReturn \/ FmFirstPass \/ FmScanLine \/ FmReturn

SpecBuild == InitBuild /\ [][NextBuild]_vars

\* filterBuildLog alone, without a file filter, with caps up to the length of
\* the text and with context lines.
NoFilter == {[fileFilter |-> <<>>, fileFilters |-> <<>>]}

InitExtract ==
    InitBuildOn({"filterBuildLog"}, {MaxLogCap, MaxLogLines}, 0..MaxContext, NoFilter)

NextExtract == FblFirstPass \/ FblScanLine \/ FblReturn

SpecExtract == InitExtract /\ [][NextExtract]_vars

\* ------------------------------------------------------ localFilterBuildLog
InitLocal ==
    /\ fn = "localFilterBuildLog"
    /\ lines \in UNION {Logs(n) : n \in 1..MaxLogLines}
    /\ showWarnings \in BOOLEAN
    /\ maxErrors \in 0..MaxLogCap
    /\ maxWarnings \in 0..MaxLogCap
    /\ contextLines \in {0, 1}
    /\ fileFilter = <<>>
    /\ fileFilters = <<>>
    /\ Defaults
    /\ pc = "pass2"
    /\ i = 1
    /\ filesSet = {}
    /\ errors = <<>>
    /\ warnings = <<>>
    /\ errorCount = 0
    /\ warningCount = 0
    /\ result = NoResult
    /\ root = <<>>
    /\ failedTests = <<>>
    /\ inFailedTestCase = FALSE
    /\ currentTest = <<>>
    /\ captureStack = FALSE
    /\ captureOutput = FALSE
    /\ currentIndent = 0
    /\ declared = ParseSummary(<<>>)

\* part_004 76-80: the lines from max(0, i - contextLines) up to the error.
LocalContext(k) ==
    LET startIdx == IF k - 1 - contextLines > 0 THEN k - 1 - contextLines ELSE 0
    IN [m \in 1..(k - 1 - startIdx) |-> lines[startIdx + m]]

\* part_004 71-99 (mcp-http-server.js 75-103): one line of the scan.
LocalScanLine ==
    /\ fn = "localFilterBuildLog" /\ pc = "pass2" /\ i <= Len(lines)
    /\ LET line == lines[i]
           isError == IsErrorLine(fn, line)
           isWarning == showWarnings /\ RegexTest(RE_WARNING, line)
       IN  /\ errors' = IF isError /\ Len(errors) < maxErrors
                        THEN Append(errors, [line |-> i, content |-> line,
                                             context |-> LocalContext(i)])
                        ELSE errors
           /\ errorCount' = IF isError THEN errorCount + 1 ELSE errorCount
           /\ warnings' = IF isWarning /\ Len(warnings) < maxWarnings
                          THEN Append(warnings, [line |-> i, content |-> line])
                          ELSE warnings
           /\ warningCount' = IF isWarning THEN warningCount + 1 ELSE warningCount
    /\ i' = i + 1
    /\ UNCHANGED <<envVars, lines, maxErrors, pc, filesSet, result, fn, unityVars, showWarnings,
                   maxWarnings, contextLines, fileFilter, fileFilters>>

\* part_004 138-140: localFilterBuildLog returns results.
LocalReturn ==
    /\ fn = "localFilterBuildLog" /\ pc = "pass2" /\ i > Len(lines)
    /\ result' = [summary |-> [totalLines |-> Len(lines), errorCount |-> errorCount,
                               warningCount |-> warningCount],
                  errors |-> errors, warnings |-> warnings]
    /\ pc' = "done"
    /\ UNCHANGED <<envVars, lines, maxErrors, i, filesSet, fn, unityVars, logVars>>

NextLocal == LocalScanLine \/ LocalReturn

SpecLocal == InitLocal /\ [][NextLocal]_vars

\* ------------------------------------------------------------ summary roots
\* Root elements the summary pattern matches and does not match: the
\* attributes in the order of the pattern, passed before total, skipped
\* missing, and a text without a test-run element.
SummaryRoots ==
    RootPalette \cup
    {<<Attr("testcasecount", 10), Attr("passed", 8), Attr("total", 10),
       Attr("failed", 2), Attr("skipped", 0)>>,
     <<Attr("testcasecount", 10), Attr("total", 10), Attr("passed", 8),
       Attr("failed", 2)>>,
     <<>>}

SpecSummary == InitUnityOn(SummaryRoots, {MaxCap}) /\ [][NextUnity]_vars

\* ------------------------------------------------------------- termination
\* Every call of the three scanners, run to its end: a loop that can take
\* another iteration takes it, and a function that can return returns.
SpecTerminate ==
    /\ \/ InitUnity /\ Len(lines) < MaxLines
       \/ InitBuildOn({"filterBuildLog", "formatMinimal"}, 0..MaxLogCap, {0}, NoFilter)
             /\ Len(lines) < MaxLogLines
    /\ [][NextUnity \/ NextBuild]_vars
    /\ WF_vars(NextUnity \/ NextBuild)

\* ---------------------------------------------------------- two invocations
\* The clock advances while a call runs and between calls.
Tick ==
    /\ fn \in {"filterUnityTestResults", "filterBuildLog"}
    /\ now < MaxTime
    /\ now' = now + 1
    /\ UNCHANGED <<lines, maxErrors, pc, i, filesSet, result, fn, unityVars, logVars,
                   showStackTraces, showOutput, previous, content, kind, request,
                   script, ui>>

\* The function that has returned is called again with the same text and the
\* same options (server.js 564-598, a second request with the same body).
InvokeAgain ==
    /\ fn \in {"filterUnityTestResults", "filterBuildLog"}
    /\ pc = "done" /\ previous = <<>>
    /\ previous' = <<result>>
    /\ pc' = IF fn = "filterUnityTestResults" THEN "scan" ELSE "pass1"
    /\ i' = 1
    /\ failedTests' = <<>>
    /\ filesSet' = {}
    /\ inFailedTestCase' = FALSE
    /\ currentTest' = <<>>
    /\ captureStack' = FALSE
    /\ captureOutput' = FALSE
    /\ currentIndent' = 0
    /\ errors' = <<>>
    /\ warnings' = <<>>
    /\ errorCount' = 0
    /\ warningCount' = 0
    /\ result' = NoResult
    /\ UNCHANGED <<lines, root, maxErrors, declared, fn, showWarnings, maxWarnings,
                   contextLines, fileFilter, fileFilters, showStackTraces, showOutput,
                   now, content, kind, request, script, ui>>

InitTwice ==
    \/ InitUnity /\ Len(lines) < MaxLines
    \/ InitBuildOn({"filterBuildLog"}, 0..MaxLogCap, {0}, FilterPalette)
          /\ Len(lines) < MaxLogLines

NextTwice ==
    \/ UnityOpen \/ UnityInCase \/ UnitySkip \/ UnityReturn
    \/ FblFirstPass \/ FblScanLine \/ FblReturn
    \/ Tick \/ InvokeAgain

SpecTwice == InitTwice /\ [][NextTwice]_vars

\* ------------------------------------------------------------ isUnityTestXml
\* The markers the detector looks for, a blank and a word of other text.
DetectPalette == {SP, "<?xml", "<test-run", "testcasecount", "<test-case", "text"}

RECURSIVE Texts(_)
Texts(n) == IF n = 0 THEN {<<>>}
            ELSE {Append(t, x) : t \in Texts(n - 1), x \in DetectPalette}

\* server.js 21-24
IsUnityTestXml(c) ==
    LET trimmed == TrimText(c) IN
    /\ trimmed # <<>> /\ Head(trimmed) = "<?xml"
    /\ Includes(trimmed, "<test-run")
    /\ Includes(trimmed, "testcasecount")

InitDetect ==
    /\ fn = "isUnityTestXml"
    /\ content \in UNION {Texts(n) : n \in 0..MaxTextLen}
    /\ kind = "none"
    /\ pc = "request"
    /\ showStackTraces = TRUE /\ showOutput = TRUE /\ now = 0 /\ previous = <<>>
    /\ request = <<>> /\ script = ScriptStart /\ ui = UiStart
    /\ lines = <<>> /\ root = <<>> /\ maxErrors = 0 /\ i = 1
    /\ failedTests = <<>> /\ filesSet = {}
    /\ inFailedTestCase = FALSE /\ currentTest = <<>>
    /\ captureStack = FALSE /\ captureOutput = FALSE /\ currentIndent = 0
    /\ declared = ParseSummary(<<>>) /\ result = NoResult
    /\ showWarnings = TRUE /\ maxWarnings = 0 /\ contextLines = 0
    /\ fileFilter = <<>> /\ fileFilters = <<>>
    /\ errors = <<>> /\ warnings = <<>> /\ errorCount = 0 /\ warningCount = 0

\* server.js 564: the request is routed by isUnityTestXml(logContent).
Classify ==
    /\ fn = "isUnityTestXml" /\ pc = "request"
    /\ kind' = IF IsUnityTestXml(content) THEN "TestResults" ELSE "BuildLog"
    /\ pc' = "done"
    /\ UNCHANGED <<lines, maxErrors, i, filesSet, result, fn, unityVars, logVars,
                   showStackTraces, showOutput, now, previous, content, request,
                   script, ui>>

SpecDetect == InitDetect /\ [][Classify]_vars


\* ------------------------------------------------- filter-unity-results.sh
\* server.js 568, 580-581: the cap a request gets when it names none.
DefaultCap == 9999

\* filter-unity-results.sh 126: the polls of the wait loop.
MaxPolls == 15

\* filter-unity-results.sh 103-107: curl gets an answer from the port.
check_server(s) == s.up \/ s.node = "listening"

\* filter-unity-results.sh 109-117: the EXIT trap.
cleanup(s) ==
    IF s.SERVER_STARTED /\ s.SERVER_PID # ""
    THEN [s EXCEPT !.node = "killed"]
    ELSE s

\* filter-unity-results.sh 119-123: the first check, and the launch when no
\* server answers.  Whether one answers is the environment's choice.
ScriptCheck ==
    /\ script.pc = "check"
    /\ \E answers \in BOOLEAN :
          script' = IF answers
                    THEN [script EXCEPT !.up = TRUE, !.pc = "call"]
                    ELSE [script EXCEPT !.node = "starting", !.SERVER_PID = "pid",
                                        !.SERVER_STARTED = TRUE, !.pc = "poll"]
    /\ UNCHANGED <<lines, maxErrors, pc, i, filesSet, result, fn, unityVars, logVars,
                   showStackTraces, showOutput, now, previous, content, kind,
                   request, ui>>

\* The launched node process reaches app.listen: it answers from now on.
ServerReady ==
    /\ script.pc \in {"poll", "call"}
    /\ script.node = "starting"
    /\ script' = [script EXCEPT !.node = "listening"]
    /\ UNCHANGED <<lines, maxErrors, pc, i, filesSet, result, fn, unityVars, logVars,
                   showStackTraces, showOutput, now, previous, content, kind,
                   request, ui>>

\* filter-unity-results.sh 126-135: one iteration of the wait loop.
ScriptPoll ==
    /\ script.pc = "poll"
    /\ script' =
          LET n == script.i + 1 IN
          IF check_server(script) THEN [script EXCEPT !.i = n, !.pc = "call"]
          ELSE IF n = MaxPolls
               THEN [script EXCEPT !.i = n, !.SERVER_STARTED = FALSE, !.pc = "call"]
               ELSE [script EXCEPT !.i = n]
    /\ UNCHANGED <<lines, maxErrors, pc, i, filesSet, result, fn, unityVars, logVars,
                   showStackTraces, showOutput, now, previous, content, kind,
                   request, ui>>

\* filter-unity-results.sh 138-151: the request is sent; a server that
\* answers runs filterUnityTestResults on the file (server.js 564-574).
ScriptCall ==
    /\ script.pc = "call"
    /\ check_server(script)
    /\ script' = [script EXCEPT !.pc = "serve"]
    /\ UNCHANGED <<lines, maxErrors, pc, i, filesSet, result, fn, unityVars, logVars,
                   showStackTraces, showOutput, now, previous, content, kind,
                   request, ui>>

\* filter-unity-results.sh 154-183: the answer holds filteredContent; the exit
\* status comes from summary.failed, and the EXIT trap runs.
ScriptExitApi ==
    /\ script.pc = "serve"
    /\ pc = "done"
    /\ script' =
          LET failed == ToString(result.summary.failed) IN
          cleanup([script EXCEPT !.FAILED = failed, !.path = "api", !.pc = "exited",
                                 !.exit = IF failed # "0" /\ failed # "N/A"
                                          THEN "1" ELSE "0"])
    /\ UNCHANGED <<lines, maxErrors, pc, i, filesSet, result, fn, unityVars, logVars,
                   showStackTraces, showOutput, now, previous, content, kind,
                   request, ui>>

\* filter-unity-results.sh 192: the first failed="digits" of the file.
GrepFailed(r) ==
    IF \E k \in 1..Len(r) : r[k].name = "failed"
    THEN ToString(AttrVal(r, "failed"))
    ELSE "N/A"

\* filter-unity-results.sh 148-151, 184-217: curl got no answer; the exit
\* status comes from the failed attribute of the file, and the EXIT trap runs.
ScriptFallback ==
    /\ script.pc = "call"
    /\ ~check_server(script)
    /\ script' =
          LET failed == GrepFailed(root) IN
          cleanup([script EXCEPT !.FAILED = failed, !.path = "fallback",
                                 !.pc = "exited",
                                 !.exit = IF failed # "0" /\ failed # "N/A"
                                             /\ failed # ""
                                          THEN "1" ELSE "0"])
    /\ UNCHANGED <<lines, maxErrors, pc, i, filesSet, result, fn, unityVars, logVars,
                   showStackTraces, showOutput, now, previous, content, kind,
                   request, ui>>

\* One run of the script on a results file; the server scans the file while
\* the script waits for the answer.
SpecScript ==
    /\ InitUnityOn(RootPalette, {DefaultCap}) /\ Len(lines) < MaxLines
    /\ [][\/ ScriptCheck \/ ServerReady \/ ScriptPoll \/ ScriptCall
          \/ ScriptExitApi \/ ScriptFallback
          \/ script.pc = "serve" /\ NextUnity]_vars

\* ------------------------------------ the combined server (unnamed/part_001)
\* /<tag>\s*<!\[CDATA\[([\s\S]*)/ : the rest of the line after the CDATA
\* marker that follows the tag; empty when the marker does not follow it.
RestAfterTagCData(trimmed, tag) ==
    LET after == TrimLeft(From(trimmed, IndexOf(trimmed, tag) + 1)) IN
    IF after # <<>> /\ Head(after) = CDATA THEN Tail(after) ELSE <<>>

\* /([\s\S]*?)\]\]>\s*<\/tag>/ : the text before the first "]]>" that the
\* end tag follows; empty when there is no such place.
BeforeCDataEnd(trimmed, endTag) ==
    LET ends == {p \in 1..Len(trimmed) :
                    /\ trimmed[p] = CEND
                    /\ LET rest == TrimLeft(From(trimmed, p + 1)) IN
                       rest # <<>> /\ Head(rest) = endTag}
    IN  IF ends = {} THEN <<>>
        ELSE SubSeq(trimmed, 1, (CHOOSE p \in ends : \A q \in ends : p <= q) - 1)

\* part_001 87-163: the body of the loop on line k.  s holds the locals of
\* the function, t the record in progress (none, or one).
CombinedLine(s, k) ==
    LET line == lines[k]
        trimmed == Trim(line.toks)
        s0 == IF IsFailedOpen(trimmed)
              THEN [s EXCEPT !.inFailedTestCase = TRUE,
                             !.currentIndent = SearchNonSpace(line),
                             !.t = <<[name |-> ExtractTestName(trimmed),
                                      fullname |-> ExtractFullname(trimmed),
                                      message |-> <<>>, stackTrace |-> <<>>,
                                      output |-> <<>>]>>,
                             !.captureStack = FALSE, !.captureOutput = FALSE]
              ELSE s
        afterCData == From(trimmed, IndexOf(trimmed, CDATA) + 1)
        stackStart == RestAfterTagCData(trimmed, ST)
        outStart == RestAfterTagCData(trimmed, OUT)
        s1 == IF Includes(trimmed, MSG) /\ Includes(trimmed, CDATA)
              THEN IF Includes(afterCData, CEND)
                   THEN [s0 EXCEPT !.t[1].message = Trim(Before(afterCData, CEND))]
                   ELSE s0
              ELSE IF Includes(trimmed, ST)
              THEN [s0 EXCEPT !.captureStack = TRUE,
                              !.t[1].stackTrace =
                                  IF stackStart # <<>> THEN stackStart ELSE @]
              ELSE IF s0.captureStack
              THEN IF Includes(trimmed, CEND) /\ Includes(trimmed, ST_END)
                   THEN [s0 EXCEPT !.captureStack = FALSE,
                                   !.t[1].stackTrace = @ \o BeforeCDataEnd(trimmed, ST_END)]
                   ELSE [s0 EXCEPT !.t[1].stackTrace = @ \o <<NL>> \o trimmed]
              ELSE s0
        s2 == IF Includes(trimmed, OUT)
              THEN [s1 EXCEPT !.captureOutput = TRUE,
                              !.t[1].output = IF outStart # <<>> THEN outStart ELSE @]
              ELSE IF s1.captureOutput
              THEN IF Includes(trimmed, CEND) /\ Includes(trimmed, OUT_END)
                   THEN [s1 EXCEPT !.captureOutput = FALSE,
                                   !.t[1].output = @ \o BeforeCDataEnd(trimmed, OUT_END)]
                   ELSE IF Len(trimmed) > 0 /\ ~Includes(trimmed, OUT)
                           /\ ~Includes(trimmed, CDATA)
                   THEN [s1 EXCEPT !.t[1].output = @ \o trimmed \o <<NL>>]
                   ELSE s1
              ELSE s1
        closes == \/ Includes(trimmed, TC_CLOSE)
                  \/ (trimmed # <<>> /\ Head(trimmed) \in ClosingTags
                         /\ SearchNonSpace(line) <= s2.currentIndent)
        keep == closes /\ (s2.t[1].message # <<>> \/ s2.t[1].stackTrace # <<>>)
        pushed == IF keep THEN Append(s2.failedTests, s2.t[1]) ELSE s2.failedTests
    IN  IF ~(s0.inFailedTestCase /\ s0.t # <<>>) THEN s0
        ELSE IF ~closes THEN s2
        ELSE IF keep /\ Len(pushed) >= maxErrors
        THEN [s2 EXCEPT !.failedTests = pushed, !.stopped = TRUE]
        ELSE [s2 EXCEPT !.failedTests = pushed, !.inFailedTestCase = FALSE, !.t = <<>>]

\* part_001 80-164: the loop from line k on, with its break at the cap.
RECURSIVE CombinedScan(_, _)
CombinedScan(s, k) ==
    IF k > Len(lines) \/ s.stopped THEN s
    ELSE CombinedScan(CombinedLine(s, k), k + 1)

\* part_001 57-164: the failed tests the combined server's
\* filterUnityTestResults collects from the text, with the cap maxErrors.
CombinedFailedTests ==
    CombinedScan([inFailedTestCase |-> FALSE, t |-> <<>>, captureStack |-> FALSE,
                  captureOutput |-> FALSE, currentIndent |-> 0,
                  failedTests |-> <<>>, stopped |-> FALSE], 1).failedTests

\* ---------------------------------------------------- a second request
\* server.js 586-600: the text of a filterBuildLog request is sent again with
\* the same options and format 'minimal'; the first result is kept.
RequestMinimal ==
    /\ fn = "filterBuildLog" /\ pc = "done" /\ previous = <<>>
    /\ previous' = <<result>>
    /\ fn' = "formatMinimal"
    /\ pc' = "pass1" /\ i' = 1 /\ filesSet' = {} /\ result' = NoResult
    /\ errors' = <<>> /\ warnings' = <<>> /\ errorCount' = 0 /\ warningCount' = 0
    /\ UNCHANGED <<lines, maxErrors, unityVars, showWarnings, maxWarnings, contextLines,
                   fileFilter, fileFilters, showStackTraces, showOutput, now, content,
                   kind, request, script, ui>>

\* part_003 114-125 and 212-220: after a request without a file filter every
\* file of its result is selected (Select All) and the text is sent again,
\* fileFilters holding the complete files list.
RequestAllFiles ==
    /\ fn = "filterBuildLog" /\ pc = "done" /\ previous = <<>>
    /\ fileFilter = <<>> /\ fileFilters = <<>>
    /\ previous' = <<result>>
    /\ fileFilters' = result.files
    /\ pc' = "pass1" /\ i' = 1 /\ filesSet' = {} /\ result' = NoResult
    /\ errors' = <<>> /\ warnings' = <<>> /\ errorCount' = 0 /\ warningCount' = 0
    /\ UNCHANGED <<lines, maxErrors, fn, unityVars, showWarnings, maxWarnings,
                   contextLines, fileFilter, showStackTraces, showOutput, now, content,
                   kind, request, script, ui>>

SpecSecond ==
    /\ InitBuildOn({"filterBuildLog"}, {MaxLogCap, MaxLogLines}, {0}, NoFilter)
    /\ [][\/ FblFirstPass \/ FblScanLine \/ FblReturn
          \/ FmFirstPass \/ FmScanLine \/ FmReturn
          \/ RequestMinimal \/ RequestAllFiles]_vars

\* ----------------------------------------------------------- POST /api/filter
\* server.js 568, 580, 581: parseInt(v) || 9999 for a cap v of the body.
ParseCap(v) == IF v = 0 THEN DefaultCap ELSE v

\* server.js 555-584: the route reads the caps the body asks for and calls
\* the function the text is routed to (fn) with the caps it made of them.
ApiFilter ==
    /\ request = <<>>
    /\ \E e, w \in 0..MaxCap :
          /\ request' = [maxErrors |-> e, maxWarnings |-> w]
          /\ maxErrors' = ParseCap(e)
          /\ maxWarnings' = ParseCap(w)
    /\ UNCHANGED <<lines, pc, i, filesSet, result, fn, unityVars, showWarnings,
                   contextLines, fileFilter, fileFilters, errors, warnings, errorCount,
                   warningCount, showStackTraces, showOutput, now, previous, content,
                   kind, script, ui>>

\* One request: a test document or a build log, any caps in the body.
SpecRoute ==
    /\ \/ InitUnityOn(RootPalette, {0}) /\ Len(lines) < MaxLines
       \/ InitBuildOn({"filterBuildLog", "formatMinimal"}, {0}, {0}, NoFilter)
    /\ [][ApiFilter \/ (request # <<>> /\ (NextUnity \/ NextBuild))]_vars

\* --------------------------------------------- the front-end (unnamed/part_003)
\* The requests one session issues.
MaxRequests == 2

\* part_003 43-102.  A checkbox is checked exactly when its file is in
\* selectedFiles, so the boxes need no state of their own.
populateFileDropdown(u, files) ==
    LET previousSelections == u.selectedFiles
        shown == {files[n] : n \in 1..Len(files)}
    IN  IF Len(files) = 0
        THEN [u EXCEPT !.currentFiles = files, !.selectedFiles = {}]
        ELSE [u EXCEPT !.currentFiles = files,
                       !.selectedFiles =
                           IF previousSelections = {} THEN {}
                           ELSE previousSelections \cup (shown \cap previousSelections)]

\* part_003 403-417: the text of the input changes (typing, a paste) and the
\* debounce timer is set again.
InputChange ==
    /\ \E text \in Logs(1) : lines' = text
    /\ ui' = [ui EXCEPT !.autoFilterTimer = TRUE]
    /\ UNCHANGED <<maxErrors, pc, i, filesSet, result, fn, unityVars, logVars,
                   showStackTraces, showOutput, now, previous, content, kind,
                   request, script>>

\* part_003 199-229: filterLog up to the fetch, called by a click on the
\* Filter button (390, an enabled button only), by Ctrl+Enter (450-454) or
\* by the debounce timer (146-151).
filterLog ==
    /\ \E trigger \in {"click", "key", "timer"} :
          /\ trigger = "click" => ~ui.disabled
          /\ trigger = "timer" => ui.autoFilterTimer
          /\ lines # <<>>
          /\ ui.issued < MaxRequests
          /\ LET r == [id |-> ui.issued + 1, content |-> lines,
                       fileFilters |-> ui.selectedFiles]
             IN  ui' = [ui EXCEPT !.disabled = TRUE,
                                  !.autoFilterTimer = IF trigger = "timer" THEN FALSE ELSE @,
                                  !.issued = @ + 1,
                                  !.inFlight = @ \cup {r},
                                  !.last = <<r>>]
    /\ UNCHANGED <<lines, maxErrors, pc, i, filesSet, result, fn, unityVars, logVars,
                   showStackTraces, showOutput, now, previous, content, kind,
                   request, script>>

\* part_003 231-279: the answer to a request in flight arrives, whichever
\* request it is; the panel takes its result, the file boxes its files
\* (server.js 349-360: the files of the text, whatever the filter), and the
\* button is enabled.
ResponseArrives ==
    /\ \E r \in ui.inFlight :
          LET files == SortNames(FilesOf("filterBuildLog", r.content))
              u == [ui EXCEPT !.outputLog = <<r>>, !.inFlight = @ \ {r},
                              !.disabled = FALSE]
          IN  ui' = IF Len(files) > 0 THEN populateFileDropdown(u, files) ELSE u
    /\ UNCHANGED <<lines, maxErrors, pc, i, filesSet, result, fn, unityVars, logVars,
                   showStackTraces, showOutput, now, previous, content, kind,
                   request, script>>

\* part_003 70-82: a file box is clicked.
CheckboxChange ==
    /\ \E n \in 1..Len(ui.currentFiles) :
          LET f == ui.currentFiles[n] IN
          ui' = [ui EXCEPT !.selectedFiles = IF f \in @ THEN @ \ {f} ELSE @ \cup {f},
                           !.autoFilterTimer = IF lines # <<>> THEN TRUE ELSE @]
    /\ UNCHANGED <<lines, maxErrors, pc, i, filesSet, result, fn, unityVars, logVars,
                   showStackTraces, showOutput, now, previous, content, kind,
                   request, script>>

\* part_003 114-125
selectAllFiles ==
    /\ ui' = [ui EXCEPT !.selectedFiles =
                            @ \cup {ui.currentFiles[n] : n \in 1..Len(ui.currentFiles)},
                        !.autoFilterTimer = IF lines # <<>> THEN TRUE ELSE @]
    /\ UNCHANGED <<lines, maxErrors, pc, i, filesSet, result, fn, unityVars, logVars,
                   showStackTraces, showOutput, now, previous, content, kind,
                   request, script>>

\* part_003 130-141
clearFileFilter ==
    /\ ui' = [ui EXCEPT !.selectedFiles =
                            @ \ {ui.currentFiles[n] : n \in 1..Len(ui.currentFiles)},
                        !.autoFilterTimer = IF lines # <<>> THEN TRUE ELSE @]
    /\ UNCHANGED <<lines, maxErrors, pc, i, filesSet, result, fn, unityVars, logVars,
                   showStackTraces, showOutput, now, previous, content, kind,
                   request, script>>

\* The page with a text of one line in the input.
InitUi == InitBuildOn({"filterLog"}, {DefaultCap}, {0}, NoFilter) /\ Len(lines) = 1

\* One session of the page: a text in the input, then any events.
SpecUi ==
    /\ InitUi
    /\ [][\/ InputChange \/ filterLog \/ ResponseArrives
          \/ CheckboxChange \/ selectAllFiles \/ clearFileFilter]_vars

\* ----------------------------------------------------------------- claims
\* The line on which the test-case element opened on line o closes: line o
\* itself when it holds its own close tag, else the next line that holds one
\* (Len(lines) + 1 when the text ends first).
RECURSIVE FirstCloseFrom(_)
FirstCloseFrom(j) ==
    IF j > Len(lines) \/ Includes(lines[j].toks, TC_CLOSE) THEN j
    ELSE FirstCloseFrom(j + 1)

ElementClose(o) == FirstCloseFrom(o)

\* C1: for every text and every maxErrors >= 0, 0 included, the failed-test
\* list never holds more than maxErrors records.
C1_FailedTestsWithinCap ==
    /\ Len(failedTests) <= maxErrors
    /\ pc = "done" => Len(result.errors) <= maxErrors

\* C3: every retained failed test has a non-empty message or a non-empty
\* stack trace (so a test case that closes with both empty is not appended,
\* whatever its console output), and summary.failed is the length of the
\* retained list.
C3_NoiseSuppressed ==
    /\ \A n \in 1..Len(failedTests) :
          failedTests[n].message # <<>> \/ failedTests[n].stackTrace # <<>>
    /\ pc = "done" =>
          /\ result.errors = failedTests
          /\ result.summary.failed = Len(result.errors)

\* A failed test case with console output only has been closed by line 3: the
\* list is empty and summary.failed is 0 while the root declares 2.
C3_Witness ==
    /\ pc = "done"
    /\ Len(lines) = 3
    /\ lines[1] = OpenFailedLine(1)
    /\ lines[2] = OutputOpenLine(2)
    /\ lines[3] = CloseLine(3)
    /\ result.errors = <<>>
    /\ result.summary.failed = 0
    /\ declared.failedTestsCount = 2

\* C6: the message, stack trace and console output of a retained failed test
\* hold only text of lines after the test's open line and not after the close
\* of its own test-case element.
OwnText(t) ==
    \A f \in {"message", "stackTrace", "output"} :
        \A k \in 1..Len(t[f]) :
            LET ln == LineOfTok(t[f][k]) IN
            ln = 0 \/ (ln > t.openLine /\ ln <= ElementClose(t.openLine))

C6_ContentPairing == \A n \in 1..Len(failedTests) : OwnText(failedTests[n])

\* C7: after any line, stack-trace capture and output capture are never both
\* active.
C7_CaptureExclusive == ~(captureStack /\ captureOutput)

\* C8: when the text ends while a failed test case is open, the in-progress
\* record is returned with its partial content if its message or stack trace
\* is non-empty.
C8_ImplicitClose ==
    (/\ pc = "done"
     /\ i > Len(lines)
     /\ currentTest # <<>>
     /\ (currentTest[1].message # <<>> \/ currentTest[1].stackTrace # <<>>))
    => \E n \in 1..Len(result.errors) : result.errors[n] = currentTest[1]

\* C10: a message whose CDATA opens on one line and closes on a later one is
\* the inner content lines in order, joined by newlines: the text after the
\* open marker, the lines in between, the text before the close marker, each
\* without its surrounding blanks (a blank first or last piece is no line);
\* it holds none of the CDATA markers or message tags.
MessageMarkers == {CDATA, CEND, MSG, MSG_END}

AfterOpenMarker(k) == From(lines[k].toks, IndexOf(lines[k].toks, CDATA) + 1)

OpensMultiLineMessage(k) ==
    /\ Includes(lines[k].toks, MSG)
    /\ Includes(lines[k].toks, CDATA)
    /\ IndexOf(lines[k].toks, MSG) < IndexOf(lines[k].toks, CDATA)
    /\ ~Includes(AfterOpenMarker(k), CEND)

\* The inner pieces of the CDATA section opened on line k and closed on line j.
InnerPieces(k, j) ==
    [m \in 0..(j - k) |->
        IF m = 0 THEN AfterOpenMarker(k)
        ELSE IF m = j - k THEN Before(lines[j].toks, CEND)
        ELSE lines[k + m].toks]

NoBlanksAround(s) == s = <<>> \/ (Head(s) # SP /\ s[Len(s)] # SP)

\* x is piece s without its surrounding blanks.
IsStripped(x, s) ==
    /\ NoBlanksAround(x)
    /\ \E a, b \in 0..Len(s) :
          /\ a + Len(x) + b = Len(s)
          /\ \A n \in 1..a : s[n] = SP
          /\ \A n \in 1..b : s[Len(s) + 1 - n] = SP
          /\ \A n \in 1..Len(x) : x[n] = s[a + n]

\* The pieces of a text between its newlines.
RECURSIVE SplitNL(_)
SplitNL(s) ==
    IF ~Includes(s, NL) THEN <<s>>
    ELSE <<Before(s, NL)>> \o SplitNL(From(s, IndexOf(s, NL) + 1))

AllBlank(s) == \A n \in 1..Len(s) : s[n] = SP

IsInnerContent(message, k, j) ==
    LET pieces == InnerPieces(k, j)
        first == IF AllBlank(pieces[0]) THEN 1 ELSE 0
        last == IF AllBlank(pieces[j - k]) THEN j - k - 1 ELSE j - k
        got == SplitNL(message)
    IN  IF last < first THEN message = <<>>
        ELSE /\ Len(got) = last - first + 1
             /\ \A n \in 1..Len(got) : IsStripped(got[n], pieces[first + n - 1])

ScannedTests == {failedTests[n] : n \in 1..Len(failedTests)}
                    \cup {currentTest[n] : n \in 1..Len(currentTest)}

MultiLineMessageOf(t) ==
    /\ t.msgLine > 0
    /\ OpensMultiLineMessage(t.msgLine)
    /\ FirstCEndFrom(t.msgLine + 1) <= Len(lines)
    /\ \A m \in 0..(FirstCEndFrom(t.msgLine + 1) - t.msgLine) :
          \A n \in 1..Len(InnerPieces(t.msgLine, FirstCEndFrom(t.msgLine + 1))[m]) :
              InnerPieces(t.msgLine, FirstCEndFrom(t.msgLine + 1))[m][n]
                  \notin MessageMarkers

LineNumbers(list) == {list[n].line : n \in 1..Len(list)}

\* C2: at every step of filterBuildLog and formatMinimal and in the result,
\* errors holds at most maxErrors records and warnings at most maxWarnings;
\* with showWarnings false, warnings stays empty and warningCount stays 0.
C2_ListsWithinCaps ==
    /\ Len(errors) <= maxErrors
    /\ Len(warnings) <= maxWarnings
    /\ ~showWarnings => warnings = <<>> /\ warningCount = 0
    /\ (pc = "done" /\ fn = "filterBuildLog") =>
          /\ Len(result.errors) <= maxErrors
          /\ Len(result.warnings) <= maxWarnings
          /\ ~showWarnings => result.warnings = <<>> /\ result.summary.warningCount = 0
    /\ (pc = "done" /\ fn = "formatMinimal") =>
          /\ result.errorCount <= maxErrors
          /\ result.warningCount <= maxWarnings
          /\ ~showWarnings => result.warningCount = 0

\* The text has more error lines and more warning lines than the caps allow,
\* and the lists stopped at the caps.
C2_Witness ==
    /\ pc = "done"
    /\ fileFilter = <<>> /\ fileFilters = <<>>
    /\ showWarnings
    /\ maxErrors = MaxLogCap /\ maxWarnings = 0
    /\ Cardinality({k \in 1..Len(lines) : lines[k] = ErrorLogLine}) > maxErrors
    /\ \E k \in 1..Len(lines) : lines[k] = WarningLogLine
    /\ Len(errors) = maxErrors
    /\ warnings = <<>>

\* The lines read so far that match the warning pattern and no error pattern.
PureWarningLines ==
    {k \in 1..Len(lines) :
        /\ k < i
        /\ RegexTest(RE_WARNING, lines[k])
        /\ ~\E re \in ErrorPatterns(fn) : RegexTest(re, lines[k])}

\* C4: in filterBuildLog and formatMinimal no line number is in both lists; a
\* line that matches an error pattern is never recorded as a warning and
\* never counted in warningCount.
C4_ClassificationExclusive ==
    /\ LineNumbers(errors) \cap LineNumbers(warnings) = {}
    /\ \A n \in 1..Len(warnings) :
          ~\E re \in ErrorPatterns(fn) : RegexTest(re, lines[warnings[n].line])
    /\ warningCount <= Cardinality(PureWarningLines)
    /\ Len(warnings) <= Cardinality(PureWarningLines)
    /\ (pc = "done" /\ fn = "filterBuildLog") =>
          result.summary.warningCount <= Cardinality(PureWarningLines)
    /\ (pc = "done" /\ fn = "formatMinimal") =>
          result.warningCount <= Cardinality(PureWarningLines)

\* A line that matches both patterns has been recorded as an error, with room
\* left for warnings, and no warning was recorded or counted.
C4_Witness ==
    /\ pc = "done"
    /\ showWarnings /\ maxWarnings > 0
    /\ \E n \in 1..Len(errors) : lines[errors[n].line] = ErrorWarningLogLine
    /\ warnings = <<>> /\ warningCount = 0

\* C5: in localFilterBuildLog with showWarnings true, a line that matches an
\* error pattern is never added to warnings and never counted in
\* summary.warningCount.
C5_LocalClassificationExclusive ==
    showWarnings =>
        /\ \A n \in 1..Len(warnings) :
              ~\E re \in ErrorPatterns(fn) : RegexTest(re, lines[warnings[n].line])
        /\ warningCount <= Cardinality(PureWarningLines)

\* C9: with a non-empty active filter list, every retained error and warning
\* is on a line with a file name f such that f contains a filter or a filter
\* contains f; a line without a file name is not retained.
RequestedFilters ==
    IF fileFilters # <<>> THEN {fileFilters[n] : n \in 1..Len(fileFilters)}
    ELSE IF fileFilter # <<>> THEN {fileFilter} ELSE {}

C9_FileFilterContainment ==
    RequestedFilters # {} =>
        \A k \in LineNumbers(errors) \cup LineNumbers(warnings) :
            /\ FileMatch(lines[k]) # <<>>
            /\ \E x \in RequestedFilters :
                  \/ StrIncludes(FileMatch(lines[k])[1], x)
                  \/ StrIncludes(x, FileMatch(lines[k])[1])

\* Under two filters, the error of Foo.cpp (contained in a filter) and the
\* warning of Bar.h are retained and the error line without a file is not.
C9_Witness ==
    /\ pc = "done"
    /\ Len(fileFilters) = 2
    /\ Len(lines) = 3
    /\ lines[1] = ErrorLogLine
    /\ lines[2] = ErrorWarningLogLine
    /\ lines[3] = WarningLogLine
    /\ LineNumbers(errors) = {1}
    /\ LineNumbers(warnings) = {3}

\* The lines of the text that match an error pattern of filterBuildLog, and
\* those that match the warning pattern and no error pattern.
ErrorLineSet ==
    {k \in 1..Len(lines) : \E re \in ErrorPatterns("filterBuildLog") : RegexTest(re, lines[k])}

WarningLineSet ==
    {k \in 1..Len(lines) : RegexTest(RE_WARNING, lines[k])} \ ErrorLineSet

\* list holds one record per line of S, in ascending line order.
OneRecordPerLine(list, S) ==
    /\ Len(list) = Cardinality(S)
    /\ LineNumbers(list) = S
    /\ \A m, n \in 1..Len(list) : m < n => list[m].line < list[n].line

\* C11: filterBuildLog without a file filter, with showWarnings true and with
\* no more matching lines than the caps allow, returns in errors exactly one
\* record per line that matches an error pattern and in warnings exactly one
\* record per line that matches the warning pattern and no error pattern, each
\* with its 1-based line number and its text, in ascending line order; a line
\* that matches neither is in neither list, and errorCount and warningCount
\* are the lengths of the lists.
C11_ExactExtraction ==
    (/\ pc = "done" /\ fn = "filterBuildLog"
     /\ showWarnings /\ fileFilter = <<>> /\ fileFilters = <<>>
     /\ Cardinality(ErrorLineSet) <= maxErrors
     /\ Cardinality(WarningLineSet) <= maxWarnings)
    => /\ OneRecordPerLine(result.errors, ErrorLineSet)
       /\ OneRecordPerLine(result.warnings, WarningLineSet)
       /\ \A n \in 1..Len(result.errors) :
             result.errors[n].message = lines[result.errors[n].line].toks
       /\ \A n \in 1..Len(result.warnings) :
             result.warnings[n].message = lines[result.warnings[n].line].toks
       /\ result.summary.errorCount = Len(result.errors)
       /\ result.summary.warningCount = Len(result.warnings)

\* The text "ok, error, SetEnv failure": two error records, no warning record
\* (the third line matches the warning pattern too), the first line in
\* neither list.
C11_Witness ==
    /\ pc = "done" /\ fn = "filterBuildLog"
    /\ showWarnings /\ maxErrors = MaxLogLines /\ maxWarnings = MaxLogLines
    /\ lines = <<OkLogLine, ErrorLogLine, SetEnvLogLine>>
    /\ LineNumbers(result.errors) = {2, 3}
    /\ result.warnings = <<>>
    /\ result.summary.errorCount = 2

\* C12: a text is classified TestResults if and only if, leading whitespace
\* removed, it begins with "<?xml", contains "<test-run" and contains
\* "testcasecount" or at least one "<test-case"; every other text is
\* classified BuildLog.
LooksLikeTestRun(c) ==
    /\ TrimLeft(c) # <<>> /\ Head(TrimLeft(c)) = "<?xml"
    /\ Includes(c, "<test-run")
    /\ (Includes(c, "testcasecount") \/ Includes(c, "<test-case"))

C12_ContentKind ==
    pc = "done" =>
        /\ kind \in {"TestResults", "BuildLog"}
        /\ kind = "TestResults" <=> LooksLikeTestRun(content)

\* C13: a second invocation of filterBuildLog or filterUnityTestResults with
\* the same text and the same options returns the same filteredContent as
\* the first, whatever the time at which each of them runs.
C13_DeterministicRendering ==
    (pc = "done" /\ previous # <<>>) =>
        result.filteredContent = previous[1].filteredContent

\* C14: every call of filterBuildLog and of filterUnityTestResults reaches
\* its return statement and returns a result; the look-ahead that collects a
\* multi-line message stops at the end of the text at the latest, and every
\* iteration of a scan loop that is followed by another one has increased
\* the loop index by one.
C14_Termination ==
    /\ <>(pc = "done" /\ result # NoResult)
    /\ [](\A k \in 1..Len(lines) : FirstCEndFrom(k + 1) <= Len(lines) + 1)
    /\ [][pc' = pc => i' = i + 1]_vars

\* A call has returned whose message look-ahead, started on line 2, ran to
\* the end of the text without finding the close marker.
C14_Witness ==
    /\ pc = "done" /\ result # NoResult
    /\ fn = "filterUnityTestResults"
    /\ lines = <<OpenFailedLine(1), MessageOpenLine(2), TextLine(3)>>
    /\ FirstCEndFrom(3) = Len(lines) + 1
    /\ i = Len(lines) + 1

\* C15: with contextLines = c > 0, the context of the error record of line n
\* is the min(c, n - 1) lines that immediately precede line n, in the order
\* of the text and each as its text without surrounding blanks (so it is
\* empty for line 1); with contextLines = 0 the record has no context field.
PrecedingCount(n) == IF contextLines < n - 1 THEN contextLines ELSE n - 1

ContextOf(e) ==
    IF contextLines > 0
    THEN /\ "context" \in DOMAIN e
         /\ Len(e.context) = PrecedingCount(e.line)
         /\ \A m \in 1..Len(e.context) :
               e.context[m] = lines[e.line - PrecedingCount(e.line) + m - 1].toks
    ELSE "context" \notin DOMAIN e

NamedFiles ==
    {FileMatch(lines[k])[1] :
        k \in {m \in ErrorLineSet \cup WarningLineSet : FileMatch(lines[m]) # <<>>}}

C16_FilesUnfiltered ==
    (pc = "done" /\ fn = "filterBuildLog") =>
        /\ {result.files[n] : n \in 1..Len(result.files)} = NamedFiles
        /\ Len(result.files) = Cardinality(NamedFiles)
        /\ \A m, n \in 1..Len(result.files) :
              m < n => NameRank(result.files[m]) < NameRank(result.files[n])

\* Under the filter "Foo", without warnings and with a cap of 0, the list
\* still names Bar.h (a warning line the filter rejects) before Foo.cpp, which
\* two lines name.
C16_Witness ==
    /\ pc = "done" /\ fn = "filterBuildLog"
    /\ fileFilter = <<"Foo">> /\ ~showWarnings /\ maxErrors = 0
    /\ lines = <<ErrorLogLine, WarningLogLine, ErrorLogLine>>
    /\ result.errors = <<>> /\ result.warnings = <<>>
    /\ result.files = << <<"Bar", ".h">>, <<"Foo", ".cpp">> >>

\* C17: summary.errorCount of filterBuildLog is the number of lines that are
\* errors and pass the file filter, and summary.warningCount (showWarnings
\* true) the number of lines that are warnings and pass it, also when that
\* number exceeds the cap; the lists hold the first maxErrors / maxWarnings
\* of those lines.
PassesFilter(k) ==
    \/ RequestedFilters = {}
    \/ /\ FileMatch(lines[k]) # <<>>
       /\ \E x \in RequestedFilters :
             \/ StrIncludes(FileMatch(lines[k])[1], x)
             \/ StrIncludes(x, FileMatch(lines[k])[1])

Smaller(a, b) == IF a < b THEN a ELSE b

C17_CountPastCap ==
    (pc = "done" /\ fn = "filterBuildLog") =>
        LET errs == {k \in ErrorLineSet : PassesFilter(k)}
            warns == {k \in WarningLineSet : PassesFilter(k)}
        IN  /\ result.summary.errorCount = Cardinality(errs)
            /\ Len(result.errors) = Smaller(maxErrors, Cardinality(errs))
            /\ showWarnings =>
                  /\ result.summary.warningCount = Cardinality(warns)
                  /\ Len(result.warnings) = Smaller(maxWarnings, Cardinality(warns))

\* C18: for maxErrors >= 1, the scan of filterUnityTestResults goes on only
\* while the retained list is shorter than maxErrors; once the list has
\* maxErrors records no step reads another line or changes the list or the
\* file set.  The list grows only by appending a record that has a message
\* or a stack trace, so it holds the retained tests in document order, and
\* it is what the function returns.
C18_EarlyStop ==
    /\ [](maxErrors >= 1 =>
            /\ Len(failedTests) <= maxErrors
            /\ pc = "scan" => Len(failedTests) < maxErrors
            /\ pc = "post" => Len(failedTests) = maxErrors
            /\ \A m, n \in 1..Len(failedTests) :
                  m < n => failedTests[m].openLine < failedTests[n].openLine
            /\ pc = "done" => result.errors = failedTests)
    /\ [][maxErrors >= 1 =>
            /\ Len(failedTests) = maxErrors =>
                  failedTests' = failedTests /\ filesSet' = filesSet /\ i' = i
            /\ failedTests' # failedTests =>
                  /\ Len(failedTests') = Len(failedTests) + 1
                  /\ SubSeq(failedTests', 1, Len(failedTests)) = failedTests
                  /\ Retainable(failedTests'[Len(failedTests')])]_vars

\* A text with two failed tests that have a message, scanned with
\* maxErrors = 1: the scan stopped on line 2 and returned the first test only.
C18_Witness ==
    /\ pc = "done"
    /\ maxErrors = 1
    /\ lines = <<OpenFailedLine(1), MessageCloseLine(2), OpenFailedLine(3),
                 MessageCloseLine(4)>>
    /\ i = 2
    /\ Len(result.errors) = 1
    /\ result.errors[1].openLine = 1
    /\ result.errors[1].message = <<"t2">>

\* C19: when the root element has total, passed, failed and skipped in that
\* order, summary.totalTests, summary.passed and summary.skipped are the
\* declared values; when it has not (another order, one missing, no
\* test-run element), summary.totalTests, summary.passed, summary.failed
\* and summary.skipped are all 0.
C19_SummaryParsing ==
    pc = "done" =>
        IF SummaryMatches(root)
        THEN /\ result.summary.totalTests = AttrVal(root, "total")
             /\ result.summary.passed = AttrVal(root, "passed")
             /\ result.summary.skipped = AttrVal(root, "skipped")
        ELSE /\ result.summary.totalTests = 0
             /\ result.summary.passed = 0
             /\ result.summary.failed = 0
             /\ result.summary.skipped = 0

\* C20: with showWarnings true, the content formatMinimal returns is, blank
\* lines apart, the marker "=== ERRORS ===", the bare text of each retained
\* error line in scan order with nothing added (or "(no errors found)"), the
\* marker "=== WARNINGS ===" and the bare text of each retained warning line
\* (or "(no warnings found)"): no header, fence or context line.
RECURSIVE NonBlankPieces(_)
NonBlankPieces(ps) ==
    IF ps = <<>> THEN <<>>
    ELSE (IF AllBlank(Head(ps)) THEN <<>> ELSE <<Head(ps)>>) \o NonBlankPieces(Tail(ps))

BareTexts(list, placeholder) ==
    IF list = <<>> THEN << <<placeholder>> >>
    ELSE [n \in 1..Len(list) |-> lines[list[n].line].toks]

C20_MinimalBareLines ==
    (pc = "done" /\ fn = "formatMinimal" /\ showWarnings) =>
        NonBlankPieces(SplitNL(result.content)) =
            << <<"=== ERRORS ===">> >> \o BareTexts(errors, "(no errors found)")
            \o << <<"=== WARNINGS ===">> >> \o BareTexts(warnings, "(no warnings found)")

\* C21: when filter-unity-results.sh has exited, its status is non-zero if
\* the test-run element of the file declares failed > 0, and it is 0 only if
\* no test failed: the file declares failed = 0 and, on the API path, the
\* server's summary.failed is 0 too.
C21_ExitStatus ==
    script.pc = "exited" =>
        /\ AttrVal(root, "failed") > 0 => script.exit # "0"
        /\ script.exit = "0" =>
              /\ AttrVal(root, "failed") = 0
              /\ script.path = "api" => result.summary.failed = 0

\* C30: when filter-unity-results.sh has exited, a node process it launched
\* is no longer running.
C30_NoServerLeftBehind ==
    script.pc = "exited" => script.node \in {"none", "killed"}

\* C22: a step of filterUnityTestResults that reads a line inside a failed
\* test case ends the test case (the scanner is idle afterwards, or the scan
\* stops at the cap) exactly when the line holds '</test-case>' or starts
\* with '</' at an indentation not above the recorded one; and a step that
\* reads, while idle, a line that opens no failed test case changes neither
\* the retained list nor the in-progress record nor the file set.
C22_CloseTransition ==
    [][(fn = "filterUnityTestResults" /\ pc = "scan" /\ i <= Len(lines)
           /\ (i' = i + 1 \/ pc' = "post")) =>
          /\ inFailedTestCase =>
                ((~inFailedTestCase' \/ pc' = "post")
                    <=> ClosesTestCase(i, currentIndent))
          /\ (~inFailedTestCase /\ ~IsFailedOpen(Trim(lines[i].toks))) =>
                UNCHANGED <<failedTests, currentTest, filesSet>>]_vars

\* The files that the 'name.cs:lineNumber' references of a stack trace name.
FilesReferenced(st) == {FileOfRef(st[k]) : k \in {x \in 1..Len(st) : st[x] \in FileRefs}}

\* C23: every file that a reference in the accumulated stack trace of a
\* failed test case names, in its first frame or a later one, is in the file
\* set as soon as the line is read (for the test case in progress and for
\* the retained ones), and is in the files of the result.
C23_AllFramesDiscovered ==
    fn = "filterUnityTestResults" =>
        /\ \A n \in 1..Len(failedTests) :
              FilesReferenced(failedTests[n].stackTrace) \subseteq filesSet
        /\ \A n \in 1..Len(currentTest) :
              FilesReferenced(currentTest[n].stackTrace) \subseteq filesSet
        /\ pc = "done" =>
              \A n \in 1..Len(result.errors) :
                  \A f \in FilesReferenced(result.errors[n].stackTrace) :
                      \E k \in 1..Len(result.files) : result.files[k] = f

\* The fields of a failed-test record that the function returns.
ReturnedRecord(t) ==
    [name |-> t.name, fullname |-> t.fullname, message |-> t.message,
     stackTrace |-> t.stackTrace, output |-> t.output]

\* C24: when filterUnityTestResults of server.js has returned, its failed
\* tests are, record by record, the failed tests the combined server's
\* filterUnityTestResults collects from the same text with the same cap.
C24_SameFailedTests ==
    (fn = "filterUnityTestResults" /\ pc = "done") =>
        [n \in 1..Len(result.errors) |-> ReturnedRecord(result.errors[n])]
            = CombinedFailedTests

\* C25: when the text of a filterBuildLog request has been sent again with
\* the same options and format 'minimal', formatMinimal has retained the
\* error lines and the warning lines that filterBuildLog retained, and
\* returns the same counts and the same files list.
C25_SameClassification ==
    (fn = "formatMinimal" /\ pc = "done" /\ previous # <<>>) =>
        /\ LineNumbers(errors) = LineNumbers(previous[1].errors)
        /\ LineNumbers(warnings) = LineNumbers(previous[1].warnings)
        /\ result.errorCount = previous[1].summary.errorCount
        /\ result.warningCount = previous[1].summary.warningCount
        /\ result.files = previous[1].files

\* C26: when the text of a filterBuildLog request without a file filter has
\* been sent again with fileFilters set to the complete files list of the
\* first result, the second result retains the errors and the warnings of the
\* first.
C26_SelectAllIsNoFilter ==
    (fn = "filterBuildLog" /\ pc = "done" /\ previous # <<>>) =>
        /\ result.errors = previous[1].errors
        /\ result.warnings = previous[1].warnings

\* Every line that matches an error pattern or the warning pattern holds a
\* file reference.
EveryMatchNamesAFile ==
    \A k \in ErrorLineSet \cup WarningLineSet : FileMatch(lines[k]) # <<>>

\* C26 as amended: when every error line and every warning line of the text
\* holds a file reference, the second request, with fileFilters set to the
\* complete files list of the first result, retains the errors and the
\* warnings of the first.
C26_SelectAllKeepsNamedLines ==
    (fn = "filterBuildLog" /\ pc = "done" /\ previous # <<>> /\ EveryMatchNamesAFile) =>
        /\ result.errors = previous[1].errors
        /\ result.warnings = previous[1].warnings

\* Two files selected, an error of one and a warning of the other retained by
\* the second request.
C26_Witness ==
    /\ fn = "filterBuildLog" /\ pc = "done" /\ previous # <<>> /\ EveryMatchNamesAFile
    /\ Len(fileFilters) = 2
    /\ Len(result.errors) = 1 /\ Len(result.warnings) = 1
    /\ FileMatch(lines[result.errors[1].line]) # FileMatch(lines[result.warnings[1].line])

\* C27: when the function a POST /api/filter request is routed to has
\* returned, the response lists no more errors (or failed tests) than the
\* maxErrors of the body and no more warnings than its maxWarnings, 0
\* included.
C27_RequestedCaps ==
    (request # <<>> /\ pc = "done") =>
        /\ Len(failedTests) <= request.maxErrors
        /\ Len(errors) <= request.maxErrors
        /\ Len(warnings) <= request.maxWarnings

\* C28: once every request of the page has been answered, the output panel
\* shows the result for the text of the most recently issued request; and the
\* Filter button is disabled whenever a request is in flight.
C28_LatestResultShown ==
    fn = "filterLog" =>
        /\ (ui.issued > 0 /\ ui.inFlight = {}) =>
              /\ ui.outputLog # <<>>
              /\ ui.outputLog[1].content = ui.last[1].content
        /\ ui.inFlight # {} => ui.disabled

\* C29: selectedFiles holds only files of currentFiles, whatever results,
\* box clicks, Select All and Clear came before; and a step of
\* clearFileFilter leaves selectedFiles empty.
C29_SelectionWithinFiles ==
    /\ [](fn = "filterLog" =>
             ui.selectedFiles \subseteq {ui.currentFiles[n] : n \in 1..Len(ui.currentFiles)})
    /\ [][clearFileFilter => ui'.selectedFiles = {}]_vars
====
